---- MODULE Spec2Model ----
(***************************************************************************)
(* Model of cmp/report.go: the defaultReporter that the comparison engine  *)
(* drives with PushStep / Report / PopStep and reads back with String.     *)
(*                                                                         *)
(* Strings are kept run-length encoded: a string is a sequence of runs     *)
(* <<c, n>> (the character c repeated n >= 1 times) in which neighbouring  *)
(* runs carry different characters.  Two strings are equal exactly when    *)
(* their encodings are equal, and len and strings.Count are sums over the  *)
(* runs, so that texts of several thousand bytes stay small.               *)
(***************************************************************************)
EXTENDS Integers, Sequences, FiniteSets, TLC

(* ------------------------------ bounds --------------------------------- *)

\* Total number of PushStep calls the engine issues in one run.
MaxPushes == 2

\* Total number of Report(reportUnequal) calls the engine issues in one run.
MaxReports == 4

(* ------------------------------ strings -------------------------------- *)

\* The string made of the character c repeated n times.
Run(c, n) == IF n = 0 THEN << >> ELSE << <<c, n>> >>

\* a followed by b (the + of Go strings, the splicing done by fmt.Sprintf).
Cat(a, b) ==
  IF a = << >> THEN b
  ELSE IF b = << >> THEN a
  ELSE IF a[Len(a)][1] = b[1][1]
       THEN SubSeq(a, 1, Len(a) - 1)
            \o << <<b[1][1], a[Len(a)][2] + b[1][2]>> >>
            \o Tail(b)
       ELSE a \o b

\* A string literal, written as the sequence of its characters and put
\* together by halves.
RECURSIVE Lit(_)
Lit(cs) ==
  IF cs = << >> THEN << >>
  ELSE IF Len(cs) = 1 THEN Run(cs[1], 1)
  ELSE Cat(Lit(SubSeq(cs, 1, Len(cs) \div 2)),
           Lit(SubSeq(cs, Len(cs) \div 2 + 1, Len(cs))))

\* len(s): the number of bytes of s, summed over its runs by halves.
RECURSIVE len(_)
len(s) ==
  IF s = << >> THEN 0
  ELSE IF Len(s) = 1 THEN s[1][2]
  ELSE len(SubSeq(s, 1, Len(s) \div 2))
       + len(SubSeq(s, Len(s) \div 2 + 1, Len(s)))

\* strings.Count(s, c) for a one-character c, summed over the runs of s by
\* halves.
RECURSIVE Count(_, _)
Count(s, c) ==
  IF s = << >> THEN 0
  ELSE IF Len(s) = 1 THEN (IF s[1][1] = c THEN s[1][2] ELSE 0)
  ELSE Count(SubSeq(s, 1, Len(s) \div 2), c)
       + Count(SubSeq(s, Len(s) \div 2 + 1, Len(s)), c)

\* strings.Join(ss, ""): the elements of ss one after the other, put
\* together by halves.
RECURSIVE Join(_)
Join(ss) ==
  IF ss = << >> THEN << >>
  ELSE IF Len(ss) = 1 THEN ss[1]
  ELSE Cat(Join(SubSeq(ss, 1, Len(ss) \div 2)),
           Join(SubSeq(ss, Len(ss) \div 2 + 1, Len(ss))))

\* The decimal digits of a natural number, most significant first.
Digit(d) == Run(<<"0", "1", "2", "3", "4", "5", "6", "7", "8", "9">>[d + 1], 1)

RECURSIVE Digits(_)
Digits(n) == IF n < 10 THEN Digit(n) ELSE Cat(Digits(n \div 10), Digit(n % 10))

\* The %d verb of fmt.Sprintf.
Itoa(n) == IF n < 0 THEN Cat(Run("-", 1), Digits(0 - n)) ELSE Digits(n)

(* --------------------------- report flags ------------------------------ *)

\* The value of the iota-th constant of the reportFlags block.
reportFlag(iota) == (2 ^ iota) \div 2

reportEqual == reportFlag(1)
reportUnequal == reportFlag(2)
reportIgnore == reportFlag(3)

reportFlags == {reportEqual, reportUnequal, reportIgnore}

(* ---------------------- the engine's inputs ---------------------------- *)

\* The nodes the engine can descend into: a path step and the two sub-values.
\*   T      the root step, two large records that print differently
\*   .Age   30 against 31
\*   .Err   two errors of different types that both print boom
\*   .S     two texts of many lines, unequal for the engine (a custom
\*          comparer, say) and printing the same in every mode
Nodes ==
  { [ps |-> "T",   x |-> "recA", y |-> "recB"],
    [ps |-> "Age", x |-> "i30",  y |-> "i31"],
    [ps |-> "Err", x |-> "errA", y |-> "errB"],
    [ps |-> "S",   x |-> "txt",  y |-> "txt"] }

\* PathStep.String(): the text of one step.
StepString(ps) ==
  CASE ps = "T"   -> Lit(<<"{", "T", "}">>)
    [] ps = "Age" -> Lit(<<".", "A", "g", "e">>)
    [] ps = "Err" -> Lit(<<".", "E", "r", "r">>)
    [] ps = "S"   -> Lit(<<".", "S">>)

\* Path.GoString(), the %#v of a Path: the steps' texts from the root down.
RECURSIVE GoString(_)
GoString(p) ==
  IF p = << >> THEN << >> ELSE Cat(StepString(Head(p)), GoString(Tail(p)))

\* Path.push and Path.pop.
push(pa, ps) == Append(pa, ps)
pop(pa) == SubSeq(pa, 1, Len(pa) - 1)

\* The two formatting modes report asks for.
UseStringer == "UseStringer"
PrintPrimitiveType == "PrintPrimitiveType"

\* value.Format(v, conf): deterministic, total.
Format(v, conf) ==
  CASE v = "recA" -> IF conf = UseStringer
                     THEN Run("a", 2040) ELSE Cat(Lit(<<"T">>), Run("a", 2040))
    [] v = "recB" -> IF conf = UseStringer
                     THEN Run("b", 2041) ELSE Cat(Lit(<<"T">>), Run("b", 2041))
    [] v = "i30"  -> IF conf = UseStringer
                     THEN Lit(<<"3", "0">>)
                     ELSE Lit(<<"i", "n", "t", "(", "3", "0", ")">>)
    [] v = "i31"  -> IF conf = UseStringer
                     THEN Lit(<<"3", "1">>)
                     ELSE Lit(<<"i", "n", "t", "(", "3", "1", ")">>)
    [] v = "errA" -> IF conf = UseStringer
                     THEN Lit(<<"b", "o", "o", "m">>)
                     ELSE Lit(<<"A", "{", "b", "o", "o", "m", "}">>)
    [] v = "errB" -> IF conf = UseStringer
                     THEN Lit(<<"b", "o", "o", "m">>)
                     ELSE Lit(<<"B", "{", "b", "o", "o", "m", "}">>)
    [] v = "txt"  -> IF conf = UseStringer
                     THEN Run("\n", 125) ELSE Cat(Lit(<<"s">>), Run("\n", 125))

(* ------------------------------ state ---------------------------------- *)

VARIABLES
  curPath,   \* defaultReporter.curPath
  curVals,   \* defaultReporter.curVals
  diffs,     \* defaultReporter.diffs
  ndiffs,    \* defaultReporter.ndiffs
  nbytes,    \* defaultReporter.nbytes
  nlines,    \* defaultReporter.nlines
  status,    \* "running", or "panicked" once a call has panicked
  lastCall,  \* the call issued last ("" before the first one; "String again"
             \* for a String() that directly follows a String())
  out,       \* what String() returned, while it is the last call issued
  npush,     \* PushStep calls issued so far
  npop,      \* PopStep calls issued so far
  nunequal   \* Report(reportUnequal) calls issued so far

reporter == <<curPath, curVals, diffs, ndiffs, nbytes, nlines>>
vars == <<curPath, curVals, diffs, ndiffs, nbytes, nlines,
          status, lastCall, out, npush, npop, nunequal>>

maxBytes == 4096
maxLines == 256

\* The name under which a Report(f) call is logged in lastCall.
ReportCall(f) ==
  CASE f = reportEqual   -> "Report(reportEqual)"
    [] f = reportUnequal -> "Report(reportUnequal)"
    [] f = reportIgnore  -> "Report(reportIgnore)"

Init ==
  /\ curPath = << >>
  /\ curVals = << >>
  /\ diffs = << >>
  /\ ndiffs = 0
  /\ nbytes = 0
  /\ nlines = 0
  /\ status = "running"
  /\ lastCall = ""
  /\ out = << >>
  /\ npush = 0
  /\ npop = 0
  /\ nunequal = 0

(* ---------------------------- operations ------------------------------- *)

PushStep(ps, x, y) ==
  /\ status = "running"
  /\ curPath' = push(curPath, ps)
  /\ curVals' = Append(curVals, <<x, y>>)
  /\ lastCall' = "PushStep"
  /\ npush' = npush + 1
  /\ out' = << >>
  /\ UNCHANGED <<diffs, ndiffs, nbytes, nlines, status, npop, nunequal>>

\* The text of one difference: fmt.Sprintf("%#v:\n\t-: %s\n\t+: %s\n", p, sx, sy).
Sprintf3(p, sx, sy) ==
  Cat(GoString(p),
  Cat(Lit(<<":", "\n", "\t", "-", ":", " ">>),
  Cat(sx,
  Cat(Lit(<<"\n", "\t", "+", ":", " ">>),
  Cat(sy, Lit(<<"\n">>))))))

\* report with the two caps joined by "or": a block is dropped only once
\* both caps are reached.
report_EitherCap(x, y, p) ==
  /\ ndiffs' = ndiffs + 1
  /\ IF nbytes < maxBytes \/ nlines < maxLines
     THEN LET sx0 == Format(x, UseStringer)
              sy0 == Format(y, UseStringer)
              sx == IF sx0 = sy0 THEN Format(x, PrintPrimitiveType) ELSE sx0
              sy == IF sx0 = sy0 THEN Format(y, PrintPrimitiveType) ELSE sy0
              s == Sprintf3(p, sx, sy)
          IN /\ diffs' = Append(diffs, s)
             /\ nbytes' = nbytes + len(s)
             /\ nlines' = nlines + Count(s, "\n")
     ELSE UNCHANGED <<diffs, nbytes, nlines>>

\* report that forgets the line cap.
report_BytesOnly(x, y, p) ==
  /\ ndiffs' = ndiffs + 1
  /\ IF nbytes < maxBytes
     THEN LET sx0 == Format(x, UseStringer)
              sy0 == Format(y, UseStringer)
              sx == IF sx0 = sy0 THEN Format(x, PrintPrimitiveType) ELSE sx0
              sy == IF sx0 = sy0 THEN Format(y, PrintPrimitiveType) ELSE sy0
              s == Sprintf3(p, sx, sy)
          IN /\ diffs' = Append(diffs, s)
             /\ nbytes' = nbytes + len(s)
             /\ nlines' = nlines + Count(s, "\n")
     ELSE UNCHANGED <<diffs, nbytes, nlines>>

\* report without the second, exact rendering.
report_NoFallback(x, y, p) ==
  /\ ndiffs' = ndiffs + 1
  /\ IF nbytes < maxBytes /\ nlines < maxLines
     THEN LET sx == Format(x, UseStringer)
              sy == Format(y, UseStringer)
              s == Sprintf3(p, sx, sy)
          IN /\ diffs' = Append(diffs, s)
             /\ nbytes' = nbytes + len(s)
             /\ nlines' = nlines + Count(s, "\n")
     ELSE UNCHANGED <<diffs, nbytes, nlines>>

\* report that counts a difference only when it stores it.
report_CountStored(x, y, p) ==
  IF nbytes < maxBytes /\ nlines < maxLines
  THEN LET sx0 == Format(x, UseStringer)
           sy0 == Format(y, UseStringer)
           sx == IF sx0 = sy0 THEN Format(x, PrintPrimitiveType) ELSE sx0
           sy == IF sx0 = sy0 THEN Format(y, PrintPrimitiveType) ELSE sy0
           s == Sprintf3(p, sx, sy)
       IN /\ ndiffs' = ndiffs + 1
          /\ diffs' = Append(diffs, s)
          /\ nbytes' = nbytes + len(s)
          /\ nlines' = nlines + Count(s, "\n")
  ELSE UNCHANGED <<diffs, ndiffs, nbytes, nlines>>

\* report that counts one line for every stored block.
report_LinePerBlock(x, y, p) ==
  /\ ndiffs' = ndiffs + 1
  /\ IF nbytes < maxBytes /\ nlines < maxLines
     THEN LET sx0 == Format(x, UseStringer)
              sy0 == Format(y, UseStringer)
              sx == IF sx0 = sy0 THEN Format(x, PrintPrimitiveType) ELSE sx0
              sy == IF sx0 = sy0 THEN Format(y, PrintPrimitiveType) ELSE sy0
              s == Sprintf3(p, sx, sy)
          IN /\ diffs' = Append(diffs, s)
             /\ nbytes' = nbytes + len(s)
             /\ nlines' = nlines + 1
     ELSE UNCHANGED <<diffs, nbytes, nlines>>

\* report that puts the new block in front of the stored ones.
report_Prepend(x, y, p) ==
  /\ ndiffs' = ndiffs + 1
  /\ IF nbytes < maxBytes /\ nlines < maxLines
     THEN LET sx0 == Format(x, UseStringer)
              sy0 == Format(y, UseStringer)
              sx == IF sx0 = sy0 THEN Format(x, PrintPrimitiveType) ELSE sx0
              sy == IF sx0 = sy0 THEN Format(y, PrintPrimitiveType) ELSE sy0
              s == Sprintf3(p, sx, sy)
          IN /\ diffs' = <<s>> \o diffs
             /\ nbytes' = nbytes + len(s)
             /\ nlines' = nlines + Count(s, "\n")
     ELSE UNCHANGED <<diffs, nbytes, nlines>>

\* report that stores a block only when the stored text stays within the
\* caps with it.
report_IfItFits(x, y, p) ==
  /\ ndiffs' = ndiffs + 1
  /\ LET sx0 == Format(x, UseStringer)
         sy0 == Format(y, UseStringer)
         sx == IF sx0 = sy0 THEN Format(x, PrintPrimitiveType) ELSE sx0
         sy == IF sx0 = sy0 THEN Format(y, PrintPrimitiveType) ELSE sy0
         s == Sprintf3(p, sx, sy)
     IN IF nbytes + len(s) <= maxBytes /\ nlines + Count(s, "\n") <= maxLines
        THEN /\ diffs' = Append(diffs, s)
             /\ nbytes' = nbytes + len(s)
             /\ nlines' = nlines + Count(s, "\n")
        ELSE UNCHANGED <<diffs, nbytes, nlines>>

\* report that renders only the left value again when the friendly
\* renderings are equal.
report_ExactLeft(x, y, p) ==
  /\ ndiffs' = ndiffs + 1
  /\ IF nbytes < maxBytes /\ nlines < maxLines
     THEN LET sx0 == Format(x, UseStringer)
              sy0 == Format(y, UseStringer)
              sx == IF sx0 = sy0 THEN Format(x, PrintPrimitiveType) ELSE sx0
              sy == sy0
              s == Sprintf3(p, sx, sy)
          IN /\ diffs' = Append(diffs, s)
             /\ nbytes' = nbytes + len(s)
             /\ nlines' = nlines + Count(s, "\n")
     ELSE UNCHANGED <<diffs, nbytes, nlines>>

\* report that adds the bytes of the two renderings, not of the block.
report_BytesOfValues(x, y, p) ==
  /\ ndiffs' = ndiffs + 1
  /\ IF nbytes < maxBytes /\ nlines < maxLines
     THEN LET sx0 == Format(x, UseStringer)
              sy0 == Format(y, UseStringer)
              sx == IF sx0 = sy0 THEN Format(x, PrintPrimitiveType) ELSE sx0
              sy == IF sx0 = sy0 THEN Format(y, PrintPrimitiveType) ELSE sy0
              s == Sprintf3(p, sx, sy)
          IN /\ diffs' = Append(diffs, s)
             /\ nbytes' = nbytes + len(sx) + len(sy)
             /\ nlines' = nlines + Count(s, "\n")
     ELSE UNCHANGED <<diffs, nbytes, nlines>>

\* report that still stores a block when a counter is exactly at its cap.
report_AtMostCap(x, y, p) ==
  /\ ndiffs' = ndiffs + 1
  /\ IF nbytes <= maxBytes /\ nlines <= maxLines
     THEN LET sx0 == Format(x, UseStringer)
              sy0 == Format(y, UseStringer)
              sx == IF sx0 = sy0 THEN Format(x, PrintPrimitiveType) ELSE sx0
              sy == IF sx0 = sy0 THEN Format(y, PrintPrimitiveType) ELSE sy0
              s == Sprintf3(p, sx, sy)
          IN /\ diffs' = Append(diffs, s)
             /\ nbytes' = nbytes + len(s)
             /\ nlines' = nlines + Count(s, "\n")
     ELSE UNCHANGED <<diffs, nbytes, nlines>>

report(x, y, p) ==
  /\ ndiffs' = ndiffs + 1
  /\ IF nbytes < maxBytes /\ nlines < maxLines
     THEN LET sx0 == Format(x, UseStringer)
              sy0 == Format(y, UseStringer)
              sx == IF sx0 = sy0 THEN Format(x, PrintPrimitiveType) ELSE sx0
              sy == IF sx0 = sy0 THEN Format(y, PrintPrimitiveType) ELSE sy0
              s == Sprintf3(p, sx, sy)
          IN /\ diffs' = Append(diffs, s)
             /\ nbytes' = nbytes + len(s)
             /\ nlines' = nlines + Count(s, "\n")
     ELSE UNCHANGED <<diffs, nbytes, nlines>>

\* Report that takes every flag but reportEqual for a difference.
Report_NotEqual(f) ==
  /\ status = "running"
  /\ lastCall' = ReportCall(f)
  /\ nunequal' = IF f = reportUnequal THEN nunequal + 1 ELSE nunequal
  /\ IF f # reportEqual
     THEN IF Len(curVals) = 0
          THEN /\ status' = "panicked"
               /\ UNCHANGED <<diffs, ndiffs, nbytes, nlines>>
          ELSE LET vs == curVals[Len(curVals)]
               IN /\ report(vs[1], vs[2], curPath)
                  /\ UNCHANGED status
     ELSE UNCHANGED <<diffs, ndiffs, nbytes, nlines, status>>
  /\ out' = << >>
  /\ UNCHANGED <<curPath, curVals, npush, npop>>

\* Report that takes every flag but reportIgnore for a difference.
Report_NotIgnore(f) ==
  /\ status = "running"
  /\ lastCall' = ReportCall(f)
  /\ nunequal' = IF f = reportUnequal THEN nunequal + 1 ELSE nunequal
  /\ IF f # reportIgnore
     THEN IF Len(curVals) = 0
          THEN /\ status' = "panicked"
               /\ UNCHANGED <<diffs, ndiffs, nbytes, nlines>>
          ELSE LET vs == curVals[Len(curVals)]
               IN /\ report(vs[1], vs[2], curPath)
                  /\ UNCHANGED status
     ELSE UNCHANGED <<diffs, ndiffs, nbytes, nlines, status>>
  /\ out' = << >>
  /\ UNCHANGED <<curPath, curVals, npush, npop>>

\* Report that hands report the pair of the root instead of the deepest one.
Report_RootPair(f) ==
  /\ status = "running"
  /\ lastCall' = ReportCall(f)
  /\ nunequal' = IF f = reportUnequal THEN nunequal + 1 ELSE nunequal
  /\ IF f = reportUnequal
     THEN IF Len(curVals) = 0
          THEN /\ status' = "panicked"
               /\ UNCHANGED <<diffs, ndiffs, nbytes, nlines>>
          ELSE LET vs == curVals[1]
               IN /\ report(vs[1], vs[2], curPath)
                  /\ UNCHANGED status
     ELSE UNCHANGED <<diffs, ndiffs, nbytes, nlines, status>>
  /\ out' = << >>
  /\ UNCHANGED <<curPath, curVals, npush, npop>>

\* Report that counts the difference before it looks for the value pair.
Report_TallyFirst(f) ==
  /\ status = "running"
  /\ lastCall' = ReportCall(f)
  /\ nunequal' = IF f = reportUnequal THEN nunequal + 1 ELSE nunequal
  /\ IF f = reportUnequal
     THEN IF Len(curVals) = 0
          THEN /\ status' = "panicked"
               /\ ndiffs' = ndiffs + 1
               /\ UNCHANGED <<diffs, nbytes, nlines>>
          ELSE LET vs == curVals[Len(curVals)]
               IN /\ report(vs[1], vs[2], curPath)
                  /\ UNCHANGED status
     ELSE UNCHANGED <<diffs, ndiffs, nbytes, nlines, status>>
  /\ out' = << >>
  /\ UNCHANGED <<curPath, curVals, npush, npop>>

\* Report(f).  With f = reportUnequal and an empty curVals the index
\* r.curVals[len(r.curVals)-1] is out of range and the call panics.
Report(f) ==
  /\ status = "running"
  /\ lastCall' = ReportCall(f)
  /\ nunequal' = IF f = reportUnequal THEN nunequal + 1 ELSE nunequal
  /\ IF f = reportUnequal
     THEN IF Len(curVals) = 0
          THEN /\ status' = "panicked"
               /\ UNCHANGED <<diffs, ndiffs, nbytes, nlines>>
          ELSE LET vs == curVals[Len(curVals)]
               IN /\ report(vs[1], vs[2], curPath)
                  /\ UNCHANGED status
     ELSE UNCHANGED <<diffs, ndiffs, nbytes, nlines, status>>
  /\ out' = << >>
  /\ UNCHANGED <<curPath, curVals, npush, npop>>

\* PopStep that shortens the path and leaves curVals alone.
PopStep_PathOnly ==
  /\ status = "running"
  /\ lastCall' = "PopStep"
  /\ npop' = npop + 1
  /\ IF Len(curPath) = 0 \/ Len(curVals) = 0
     THEN /\ status' = "panicked"
          /\ UNCHANGED <<curPath, curVals>>
     ELSE /\ curPath' = pop(curPath)
          /\ UNCHANGED <<curVals, status>>
  /\ out' = << >>
  /\ UNCHANGED <<diffs, ndiffs, nbytes, nlines, npush, nunequal>>

\* PopStep that returns at once when there is nothing to pop.
PopStep_Guarded ==
  /\ status = "running"
  /\ lastCall' = "PopStep"
  /\ npop' = npop + 1
  /\ IF Len(curPath) = 0 \/ Len(curVals) = 0
     THEN UNCHANGED <<curPath, curVals, status>>
     ELSE /\ curPath' = pop(curPath)
          /\ curVals' = SubSeq(curVals, 1, Len(curVals) - 1)
          /\ UNCHANGED status
  /\ out' = << >>
  /\ UNCHANGED <<diffs, ndiffs, nbytes, nlines, npush, nunequal>>

\* PopStep that removes the oldest step and pair, not the newest.
PopStep_Oldest ==
  /\ status = "running"
  /\ lastCall' = "PopStep"
  /\ npop' = npop + 1
  /\ IF Len(curPath) = 0 \/ Len(curVals) = 0
     THEN /\ status' = "panicked"
          /\ UNCHANGED <<curPath, curVals>>
     ELSE /\ curPath' = Tail(curPath)
          /\ curVals' = Tail(curVals)
          /\ UNCHANGED status
  /\ out' = << >>
  /\ UNCHANGED <<diffs, ndiffs, nbytes, nlines, npush, nunequal>>

\* PopStep().  With an empty path the slice expressions [:len-1] are out of
\* range and the call panics.
PopStep ==
  /\ status = "running"
  /\ lastCall' = "PopStep"
  /\ npop' = npop + 1
  /\ IF Len(curPath) = 0 \/ Len(curVals) = 0
     THEN /\ status' = "panicked"
          /\ UNCHANGED <<curPath, curVals>>
     ELSE /\ curPath' = pop(curPath)
          /\ curVals' = SubSeq(curVals, 1, Len(curVals) - 1)
          /\ UNCHANGED status
  /\ out' = << >>
  /\ UNCHANGED <<diffs, ndiffs, nbytes, nlines, npush, nunequal>>

\* String() that prints the total tally instead of the omitted count.
String_TotalInSuffix(r_diffs, r_ndiffs) ==
  LET s == Join(r_diffs)
  IN IF r_ndiffs = Len(r_diffs)
     THEN s
     ELSE Cat(s,
          Cat(Lit(<<".", ".", ".", " ">>),
          Cat(Itoa(r_ndiffs),
              Lit(<<" ", "m", "o", "r", "e", " ",
                    "d", "i", "f", "f", "e", "r", "e", "n", "c", "e", "s", " ",
                    ".", ".", ".">>))))

\* The value String() returns for a reporter with these diffs and ndiffs.
String(r_diffs, r_ndiffs) ==
  LET s == Join(r_diffs)
  IN IF r_ndiffs = Len(r_diffs)
     THEN s
     ELSE Cat(s,
          Cat(Lit(<<".", ".", ".", " ">>),
          Cat(Itoa(r_ndiffs - Len(r_diffs)),
              Lit(<<" ", "m", "o", "r", "e", " ",
                    "d", "i", "f", "f", "e", "r", "e", "n", "c", "e", "s", " ",
                    ".", ".", ".">>))))

\* String() that hands its text over and empties the list of differences.
CallString_Flush ==
  /\ status = "running"
  /\ lastCall' = IF lastCall \in {"String", "String again"}
                 THEN "String again" ELSE "String"
  /\ out' = String(diffs, ndiffs)
  /\ diffs' = << >>
  /\ UNCHANGED <<curPath, curVals, ndiffs, nbytes, nlines,
                 status, npush, npop, nunequal>>

\* A call of String(): the caller receives the text, the reporter is only read.
CallString ==
  /\ status = "running"
  /\ lastCall' = IF lastCall \in {"String", "String again"}
                 THEN "String again" ELSE "String"
  /\ out' = String(diffs, ndiffs)
  /\ UNCHANGED <<curPath, curVals, diffs, ndiffs, nbytes, nlines,
                 status, npush, npop, nunequal>>

\* Any call, in any order, on any node and with any flag: at most MaxPushes
\* pushes and MaxReports reports of a difference.
Next ==
  \/ \E n \in Nodes : npush < MaxPushes /\ PushStep(n.ps, n.x, n.y)
  \/ \E f \in reportFlags :
       /\ f = reportUnequal => nunequal < MaxReports
       /\ Report(f)
  \/ PopStep
  \/ CallString

Spec == Init /\ [][Next]_vars

\* The traversal of a record of 1000 leaves that all differ: the root is
\* pushed, every leaf is pushed, reported unequal and popped, the root is
\* popped and String() is called.  The first leaf is any node, the leaves
\* after it are .Age fields.
NextLeaves ==
  \/ /\ npush = 0
     /\ PushStep("T", "recA", "recB")
  \/ /\ curPath = <<"T">>
     /\ npush = 1
     /\ lastCall = "PushStep"
     /\ \E n \in Nodes : PushStep(n.ps, n.x, n.y)
  \/ /\ curPath = <<"T">>
     /\ npush > 1
     /\ npush < 1 + 1000
     /\ lastCall = "PopStep"
     /\ PushStep("Age", "i30", "i31")
  \/ /\ Len(curPath) = 2
     /\ lastCall = "PushStep"
     /\ Report(reportUnequal)
  \/ /\ lastCall = "Report(reportUnequal)"
     /\ PopStep
  \/ /\ curPath = <<"T">>
     /\ npush = 1 + 1000
     /\ lastCall = "PopStep"
     /\ PopStep
  \/ /\ curPath = << >>
     /\ npop = 1 + 1000
     /\ lastCall = "PopStep"
     /\ CallString

SpecLeaves == Init /\ [][NextLeaves]_vars

(* ------------------------------ claims --------------------------------- *)

\* A call has panicked: the run of the engine ended there.
Running == status = "running"
PopPanicked == status = "panicked" /\ lastCall = "PopStep"

\* The stored blocks i..j one after the other.
RECURSIVE StoredFrom(_, _)
StoredFrom(i, j) ==
  IF i > j THEN << >>
  ELSE IF i = j THEN diffs[i]
  ELSE Cat(StoredFrom(i, (i + j) \div 2), StoredFrom((i + j) \div 2 + 1, j))

\* The first k stored blocks one after the other.
Stored(k) == StoredFrom(1, k)

\* The suffix that tells of n omitted differences.
MoreDifferences(n) ==
  Cat(Lit(<<".", ".", ".", " ">>),
  Cat(Itoa(n),
      Lit(<<" ", "m", "o", "r", "e", " ", "d", "i", "f", "f", "e", "r", "e",
            "n", "c", "e", "s", " ", ".", ".", ".">>)))

\* Either cap is reached.
Capped == nbytes >= maxBytes \/ nlines >= maxLines

\* C1: in every reachable state String() is the stored blocks in the order
\* they were stored when as many blocks are stored as differences were
\* tallied, and otherwise those blocks followed by "... N more differences
\* ..." with N = tally - stored; the stored count never exceeds the tally,
\* so N >= 1 whenever the suffix is there, and the suffix is there exactly
\* when a block was dropped.  A String() call returns that text.
C1_StringIsStoredPlusOmitted ==
  LET n == ndiffs - Len(diffs)
      all == Stored(Len(diffs))
  IN /\ Len(diffs) <= ndiffs
     /\ n = 0 => String(diffs, ndiffs) = all
     /\ n # 0 => n >= 1 /\ String(diffs, ndiffs) = Cat(all, MoreDifferences(n))
     /\ (String(diffs, ndiffs) # all) <=> (ndiffs > Len(diffs))
     /\ lastCall \in {"String", "String again"} => out = String(diffs, ndiffs)

\* C1 witness: String() was called with two blocks stored and one dropped.
C1_Witness ==
  /\ lastCall = "String"
  /\ Len(diffs) = 2
  /\ ndiffs = 3
  /\ out = Cat(Cat(diffs[1], diffs[2]), MoreDifferences(1))

\* C2 as stated: the stored text never exceeds 4096 bytes nor 256 lines.
C2_StoredTextWithinCaps ==
  /\ len(Stored(Len(diffs))) <= maxBytes /\ nbytes <= maxBytes
  /\ Count(Stored(Len(diffs)), "\n") <= maxLines /\ nlines <= maxLines

\* C2 amended: nbytes and nlines are the bytes and lines of the stored text,
\* and the stored text without its last block is below 4096 bytes and below
\* 256 lines; only the block stored last can carry the totals past a cap.
C2_StoredTextWithinCapsButLast ==
  /\ nbytes = len(Stored(Len(diffs)))
  /\ nlines = Count(Stored(Len(diffs)), "\n")
  /\ diffs # << >> =>
       /\ len(Stored(Len(diffs) - 1)) < maxBytes
       /\ Count(Stored(Len(diffs) - 1), "\n") < maxLines

\* C2 witness: a second block was stored below the byte cap and carried the
\* stored text past it.
C2_Witness ==
  /\ Len(diffs) = 2
  /\ len(diffs[1]) < maxBytes
  /\ nbytes > maxBytes
  /\ lastCall = "Report(reportUnequal)"

\* C3: truncation is a one-way latch.  From a state in which a cap is
\* reached or a report has been dropped, no step changes diffs, nbytes or
\* nlines, the state after it is again such a state, and a Report(Unequal)
\* that returns adds exactly one to ndiffs; a report is only ever dropped
\* with a cap reached.
C3_TruncationLatch ==
  [][ /\ (ndiffs > Len(diffs) => Capped)
      /\ (Capped \/ ndiffs > Len(diffs)) =>
           /\ diffs' = diffs
           /\ nbytes' = nbytes
           /\ nlines' = nlines
           /\ Capped'
           /\ (lastCall' = "Report(reportUnequal)" /\ Running') =>
                ndiffs' = ndiffs + 1
    ]_vars

\* C3 witness: the line cap alone is reached, by the second block, and two
\* reports made after that have been tallied and dropped.
C3_Witness ==
  /\ nlines >= maxLines
  /\ nbytes < maxBytes
  /\ lastCall = "Report(reportUnequal)"
  /\ Running
  /\ Len(diffs) = 2
  /\ ndiffs = 4

\* C4: while no call has panicked, ndiffs is the number of Report(Unequal)
\* calls issued so far, whether their blocks were stored or dropped; a step
\* changes ndiffs only if it is a Report(Unequal), and then by one.
C4_TallyCountsUnequalReports ==
  [][ /\ Running' => ndiffs' = nunequal'
      /\ ndiffs' # ndiffs =>
           lastCall' = "Report(reportUnequal)" /\ ndiffs' = ndiffs + 1
    ]_vars

\* C4 witness: three Report(Unequal) calls, one stored and two dropped.
C4_Witness ==
  /\ Running
  /\ nunequal = 3
  /\ ndiffs = 3
  /\ Len(diffs) = 1

\* C5: as long as no PopStep was issued at depth 0, the path is as long as
\* the depth (pushes minus pops), the depth is not negative, curVals is as
\* long as the path, and both are empty once every push has been popped.
C5_PathLengthIsDepth ==
  ~PopPanicked =>
    LET depth == npush - npop
    IN /\ depth >= 0
       /\ Len(curPath) = depth
       /\ Len(curVals) = Len(curPath)
       /\ depth = 0 => curPath = << >> /\ curVals = << >>

\* C5 witness: two pushes have both been popped, nothing was reported.
C5_Witness ==
  /\ Running
  /\ lastCall = "PopStep"
  /\ npush = 2
  /\ npop = 2
  /\ nunequal = 0
  /\ curPath = << >>
  /\ curVals = << >>

\* C6: as long as no Report(Unequal) was issued, whatever was pushed, popped
\* and reported as equal or ignored, String() is the empty string.
C6_NoUnequalEmptyString ==
  nunequal = 0 =>
    /\ String(diffs, ndiffs) = << >>
    /\ lastCall \in {"String", "String again"} => out = << >>

\* C6 witness: a leaf two levels down was reported as ignored, and nothing
\* was ever reported unequal.
C6_Witness ==
  /\ nunequal = 0
  /\ lastCall = "Report(reportIgnore)"
  /\ Len(curPath) = 2
  /\ String(diffs, ndiffs) = << >>

\* C7: a String() call changes none of curPath, curVals, diffs, ndiffs,
\* nbytes, nlines and returns the text of the state it is called in; called
\* again with no call in between it returns the same text.
C7_StringReadOnlyIdempotent ==
  [][ lastCall' \in {"String", "String again"} =>
        /\ reporter' = reporter
        /\ status' = status
        /\ out' = String(diffs, ndiffs)
        /\ lastCall' = "String again" => out' = out
    ]_vars

\* C7 witness: String() was called twice in a row in the middle of a
\* traversal, with a block stored and a difference dropped.
C7_Witness ==
  /\ lastCall = "String again"
  /\ Len(curPath) >= 1
  /\ Len(diffs) >= 1
  /\ ndiffs > Len(diffs)
  /\ out = String(diffs, ndiffs)

\* C8: Report(Equal) and Report(Ignore) return normally at every depth and
\* change none of curPath, curVals, diffs, ndiffs, nbytes, nlines, so that
\* String() is the same before and after.
C8_EqualIgnoreNoOps ==
  [][ lastCall' \in {"Report(reportEqual)", "Report(reportIgnore)"} =>
        /\ reporter' = reporter
        /\ status' = status
        /\ String(diffs', ndiffs') = String(diffs, ndiffs)
    ]_vars

\* C8 witness: Report(Equal) was issued at depth 0 with a block stored.
C8_Witness ==
  /\ lastCall = "Report(reportEqual)"
  /\ Running
  /\ curPath = << >>
  /\ Len(diffs) = 1

\* The text of the steps p[1] .. p[k], built up from the root.
RECURSIVE PathText(_, _)
PathText(p, k) ==
  IF k = 0 THEN << >> ELSE Cat(PathText(p, k - 1), StepString(p[k]))

\* A block: the path, the before line and the after line.
Block(pathText, before, after) ==
  Cat(Cat(Cat(pathText, Lit(<<":", "\n", "\t", "-", ":", " ">>)), before),
      Cat(Cat(Lit(<<"\n", "\t", "+", ":", " ">>), after), Lit(<<"\n">>)))

\* {T}.Age: / -: 30 / +: 31
AgeBlock ==
  Lit(<<"{", "T", "}", ".", "A", "g", "e", ":", "\n",
        "\t", "-", ":", " ", "3", "0", "\n",
        "\t", "+", ":", " ", "3", "1", "\n">>)

\* {T}.Err: / -: A{boom} / +: B{boom}
ErrBlock ==
  Lit(<<"{", "T", "}", ".", "E", "r", "r", ":", "\n",
        "\t", "-", ":", " ", "A", "{", "b", "o", "o", "m", "}", "\n",
        "\t", "+", ":", " ", "B", "{", "b", "o", "o", "m", "}", "\n">>)

\* The step stores a block.
Stores == lastCall' = "Report(reportUnequal)" /\ Len(diffs') = Len(diffs) + 1

\* C9: a block stored by Report(Unequal) is the text of the whole current
\* path, root first, then the left value of the deepest pair on the before
\* line and its right value on the after line, both in the same mode.
\* Report(Unequal) on a fresh reporter under push(root), push(Age, 30, 31)
\* stores the one block {T}.Age / 30 / 31, String() is then that block
\* without a suffix, and the pops leave both as they are.
C9_BlockFromPathAndDeepestPair ==
  [][ /\ Stores =>
           LET vs == curVals[Len(curVals)]
           IN \E conf \in {UseStringer, PrintPrimitiveType} :
                diffs'[Len(diffs')] =
                  Block(PathText(curPath, Len(curPath)),
                        Format(vs[1], conf), Format(vs[2], conf))
      /\ ( /\ lastCall' = "Report(reportUnequal)"
           /\ curPath = <<"T", "Age">>
           /\ curVals = << <<"recA", "recB">>, <<"i30", "i31">> >>
           /\ ndiffs = 0 ) =>
           diffs' = <<AgeBlock>> /\ String(diffs', ndiffs') = AgeBlock
      /\ lastCall' = "PopStep" =>
           /\ diffs' = diffs
           /\ String(diffs', ndiffs') = String(diffs, ndiffs)
    ]_vars

\* C9 witness: push(root), push(Age), Report(Unequal), pop, pop.
C9_Witness ==
  /\ Running
  /\ lastCall = "PopStep"
  /\ npush = 2
  /\ npop = 2
  /\ curPath = << >>
  /\ nunequal = 1
  /\ diffs = <<AgeBlock>>
  /\ String(diffs, ndiffs) = AgeBlock

\* Every text value.Format gives for a value of the model.
Texts ==
  { Format(v, conf) : v \in {n.x : n \in Nodes} \cup {n.y : n \in Nodes},
                      conf \in {UseStringer, PrintPrimitiveType} }

\* The block stored by the step shows one text twice.
SameLines ==
  \E s \in Texts : diffs'[Len(diffs')] = Block(PathText(curPath, Len(curPath)), s, s)

\* The deepest pair prints the same in friendly mode.
SameFriendly ==
  LET vs == curVals[Len(curVals)]
  IN Format(vs[1], UseStringer) = Format(vs[2], UseStringer)

\* C10 as stated: a stored block of two values that print the same in
\* friendly mode shows them in exact mode and its two lines differ; no
\* stored block shows the same text before and after.
C10_SameFriendlyLinesDiffer ==
  [][ Stores =>
        LET vs == curVals[Len(curVals)]
        IN /\ SameFriendly =>
                diffs'[Len(diffs')] =
                  Block(PathText(curPath, Len(curPath)),
                        Format(vs[1], PrintPrimitiveType),
                        Format(vs[2], PrintPrimitiveType))
           /\ ~SameLines
    ]_vars

\* C10 amended: a stored block of two values that print the same in friendly
\* mode shows both in exact mode, and a stored block shows the same text
\* before and after exactly when its two values print the same in friendly
\* mode and in exact mode.
C10_SameFriendlyBothExact ==
  [][ Stores =>
        LET vs == curVals[Len(curVals)]
        IN /\ SameFriendly =>
                diffs'[Len(diffs')] =
                  Block(PathText(curPath, Len(curPath)),
                        Format(vs[1], PrintPrimitiveType),
                        Format(vs[2], PrintPrimitiveType))
           /\ SameLines <=>
                /\ SameFriendly
                /\ Format(vs[1], PrintPrimitiveType)
                     = Format(vs[2], PrintPrimitiveType)
    ]_vars

\* C10 witness: the two errors that both print boom were reported under the
\* root and are stored in exact mode.
C10_Witness ==
  /\ lastCall = "Report(reportUnequal)"
  /\ curPath = <<"T", "Err">>
  /\ diffs = <<ErrBlock>>

\* The traversal of 1000 differing .Age leaves is over and String() was
\* called.
LeavesDone ==
  /\ lastCall = "String"
  /\ nunequal = 1000
  /\ Len(diffs) > 0
  /\ diffs[1] = AgeBlock

\* C11 as stated: after 1000 Unequal leaves of one small block each, blocks
\* were stored until 4096 bytes of text were stored, and String() is the
\* stored blocks followed by "... 996 more differences ...", 996 being 1000
\* minus the number of stored blocks.
C11_ThousandLeaves996 ==
  LeavesDone =>
    /\ nbytes >= maxBytes
    /\ 1000 - Len(diffs) = 996
    /\ out = Cat(Stored(Len(diffs)), MoreDifferences(996))

\* C11: after 1000 Unequal leaves of one block {T}.Age / 30 / 31 each (23
\* bytes, 3 lines), blocks were stored until 256 lines of text were stored,
\* which is after 86 blocks and 1978 bytes, and String() is the 86 stored
\* blocks followed by "... 914 more differences ...", 914 being 1000 minus
\* the number of stored blocks.
C11_ThousandLeaves914 ==
  LeavesDone =>
    /\ ndiffs = 1000
    /\ Len(diffs) = 86
    /\ \A i \in 1..Len(diffs) : diffs[i] = AgeBlock
    /\ nlines >= maxLines
    /\ nlines - Count(AgeBlock, "\n") < maxLines
    /\ nbytes = 86 * len(AgeBlock)
    /\ nbytes < maxBytes
    /\ 1000 - Len(diffs) = 914
    /\ out = Cat(Stored(Len(diffs)), MoreDifferences(914))

C11_Witness ==
  /\ LeavesDone
  /\ curPath = << >>
  /\ npop = 1 + 1000
  /\ Len(diffs) = 86
  /\ diffs[86] = AgeBlock

\* C12: PopStep called with an empty path and an empty value stack does not
\* return: the call panics, the path and the value stack stay empty (no
\* negative depth), and the stored blocks and ndiffs, nbytes, nlines are
\* what they were before the call.
C12_PopAtDepthZeroPanics ==
  [][ (lastCall' = "PopStep" /\ curPath = << >> /\ curVals = << >>) =>
        /\ status' = "panicked"
        /\ Len(curPath') = 0
        /\ Len(curVals') = 0
        /\ diffs' = diffs
        /\ ndiffs' = ndiffs
        /\ nbytes' = nbytes
        /\ nlines' = nlines ]_vars

C12_Witness ==
  /\ PopPanicked
  /\ curPath = << >>
  /\ curVals = << >>
  /\ npush = npop - 1
  /\ Len(diffs) >= 1
  /\ ndiffs > Len(diffs)

\* The calls that are a Report.
ReportCalls == { ReportCall(f) : f \in reportFlags }

\* The node the next Report is about already has its verdict: the call
\* before was a Report too, with no PushStep or PopStep in between.
VerdictGiven == lastCall \in ReportCalls /\ Len(curPath) >= 1

\* The node the next Report is about is not a leaf: a child was pushed
\* beneath it and popped again.
NotALeaf == lastCall = "PopStep" /\ Len(curPath) >= 1

\* C13: a Report that is the second verdict for one node, or that is about
\* a node with a child, panics and changes neither the stored blocks nor
\* ndiffs, nbytes, nlines.
C13_ProtocolViolationIsFatal ==
  [][ (lastCall' \in ReportCalls /\ status = "running"
       /\ (VerdictGiven \/ NotALeaf)) =>
        /\ status' = "panicked"
        /\ diffs' = diffs
        /\ ndiffs' = ndiffs
        /\ nbytes' = nbytes
        /\ nlines' = nlines ]_vars

\* The list a is the beginning of the list b.
IsPrefixSeq(a, b) == Len(a) <= Len(b) /\ SubSeq(b, 1, Len(a)) = a

\* The string a is the beginning of the string b: the runs of a but the
\* last are runs of b, and the last run of a is the beginning of a run of b.
IsPrefixStr(a, b) ==
  \/ a = << >>
  \/ /\ Len(a) <= Len(b)
     /\ SubSeq(b, 1, Len(a) - 1) = SubSeq(a, 1, Len(a) - 1)
     /\ a[Len(a)][1] = b[Len(a)][1]
     /\ a[Len(a)][2] <= b[Len(a)][2]

\* C14: no call modifies, reorders or removes a stored block: the stored
\* list before any step is the beginning of the stored list after it, and
\* while no difference has been dropped, String() before any step is the
\* beginning of String() after it (so String() in mid-traversal is the
\* beginning of String() at the end).
C14_StoredListAppendOnly ==
  [][ /\ IsPrefixSeq(diffs, diffs')
      /\ ndiffs = Len(diffs) =>
           IsPrefixStr(String(diffs, ndiffs), String(diffs', ndiffs')) ]_vars

C14_Witness ==
  /\ lastCall = "String"
  /\ Len(curPath) >= 1
  /\ ndiffs = 2
  /\ Len(diffs) = 2
  /\ diffs[1] # diffs[2]
  /\ out = Cat(diffs[1], diffs[2])

\* C15: whether a Report(Unequal) that returns stores a block is decided by
\* the counters before the call alone: it appends exactly one block when
\* nbytes < 4096 and nlines < 256, and leaves the stored list as it is
\* otherwise, whatever the size of the block and the depth of the path.
C15_StoreDecidedByCounters ==
  [][ (lastCall' = "Report(reportUnequal)" /\ status' = "running") =>
        IF nbytes < maxBytes /\ nlines < maxLines
        THEN Len(diffs') = Len(diffs) + 1 /\ IsPrefixSeq(diffs, diffs')
        ELSE diffs' = diffs ]_vars

\* A block of more than 4096 bytes was stored on top of a stored block, and
\* the Report(Unequal) after it stored nothing.
C15_Witness ==
  /\ lastCall = "Report(reportUnequal)"
  /\ Running
  /\ Len(curPath) = 2
  /\ Len(diffs) = 2
  /\ len(diffs[1]) < maxBytes
  /\ len(diffs[2]) > maxBytes
  /\ ndiffs = 3

\* C16: every stored block is rendered by the two-pass rule: when the
\* friendly renderings of the two values are equal, both lines show the
\* exact-type renderings, and when they differ, both lines show the
\* friendly renderings.
C16_TwoPassRendering ==
  [][ Stores =>
        LET vs == curVals[Len(curVals)]
            fx == Format(vs[1], UseStringer)
            fy == Format(vs[2], UseStringer)
            ex == Format(vs[1], PrintPrimitiveType)
            ey == Format(vs[2], PrintPrimitiveType)
            pt == PathText(curPath, Len(curPath))
        IN diffs'[Len(diffs')] =
             IF fx = fy THEN Block(pt, ex, ey) ELSE Block(pt, fx, fy) ]_vars

\* One block in friendly mode and one block in exact-type mode are stored.
C16_Witness ==
  /\ lastCall = "Report(reportUnequal)"
  /\ diffs = << Block(StepString("Age"), Format("i30", UseStringer),
                      Format("i31", UseStringer)),
                Block(StepString("Err"), Format("errA", PrintPrimitiveType),
                      Format("errB", PrintPrimitiveType)) >>
  /\ Format("i30", UseStringer) # Format("i30", PrintPrimitiveType)
  /\ Format("errA", UseStringer) = Format("errB", UseStringer)

\* The bytes of the blocks of a list, block by block.
RECURSIVE SumBytes(_)
SumBytes(ss) == IF ss = << >> THEN 0 ELSE len(Head(ss)) + SumBytes(Tail(ss))

\* The newlines of the blocks of a list, block by block.
RECURSIVE SumLines(_)
SumLines(ss) ==
  IF ss = << >> THEN 0 ELSE Count(Head(ss), "\n") + SumLines(Tail(ss))

\* C17: before and after every step nbytes is the sum of the byte lengths
\* of the stored blocks and nlines the sum of their newline counts, and no
\* step makes ndiffs, nbytes, nlines or the number of stored blocks smaller.
C17_CountersAreSumsAndGrow ==
  [][ /\ nbytes = SumBytes(diffs)
      /\ nlines = SumLines(diffs)
      /\ nbytes' = SumBytes(diffs')
      /\ nlines' = SumLines(diffs')
      /\ ndiffs' >= ndiffs
      /\ nbytes' >= nbytes
      /\ nlines' >= nlines
      /\ Len(diffs') >= Len(diffs) ]_vars

C17_Witness ==
  /\ lastCall = "PopStep"
  /\ Running
  /\ Len(diffs) = 2
  /\ nbytes = len(diffs[1]) + len(diffs[2])
  /\ nlines = Count(diffs[1], "\n") + Count(diffs[2], "\n")
  /\ nlines > 6
  /\ ndiffs = 3

\* The stack s is the stack t with one more element on top.
OneMore(s, t) == Len(s) = Len(t) + 1 /\ SubSeq(s, 1, Len(t)) = t

\* C18: PushStep puts one step on the path and one pair on the value stack
\* and leaves what is beneath them as it is, a PopStep that returns takes
\* exactly the top step and the top pair away again, and no other call
\* touches the path or the value stack; so after a PushStep, any balanced
\* run of calls and the matching PopStep, both are what they were before
\* the PushStep.  PushStep and PopStep leave the stored blocks and ndiffs,
\* nbytes, nlines as they are.
C18_PushPopRestores ==
  [][ /\ lastCall' = "PushStep" =>
           /\ OneMore(curPath', curPath)
           /\ OneMore(curVals', curVals)
           /\ UNCHANGED <<diffs, ndiffs, nbytes, nlines>>
      /\ lastCall' = "PopStep" =>
           /\ status' = "running" =>
                OneMore(curPath, curPath') /\ OneMore(curVals, curVals')
           /\ UNCHANGED <<diffs, ndiffs, nbytes, nlines>>
      /\ lastCall' \notin {"PushStep", "PopStep"} =>
           UNCHANGED <<curPath, curVals>> ]_vars

\* The root is pushed, a leaf is pushed, reported and popped: the path and
\* the value stack are those of the root alone again.
C18_Witness ==
  /\ lastCall = "PopStep"
  /\ Running
  /\ npush = 2
  /\ npop = 1
  /\ curPath = <<"T">>
  /\ curVals = << <<"recA", "recB">> >>
  /\ Len(diffs) = 1

\* C19: when a block is stored, the stored text without the block stored
\* last is below 4096 bytes and below 256 lines, so only the last block can
\* carry the text past a cap; every stored block has at least 3 newlines,
\* and at most 86 blocks are stored.
C19_OvershootByOneBlock ==
  /\ Len(diffs) >= 1 =>
       /\ nbytes - len(diffs[Len(diffs)]) < maxBytes
       /\ nlines - Count(diffs[Len(diffs)], "\n") < maxLines
  /\ \A i \in 1..Len(diffs) : Count(diffs[i], "\n") >= 3
  /\ Len(diffs) <= 86

\* 86 blocks are stored, the last one went past the line cap, and the
\* differences reported after it were dropped.
C19_Witness ==
  /\ Len(diffs) = 86
  /\ nlines > maxLines
  /\ nlines - Count(diffs[86], "\n") < maxLines
  /\ ndiffs = 1000
  /\ lastCall = "PopStep"

\* C20: with an empty path and an empty value stack Report(Unequal) panics
\* and Report(Equal) and Report(Ignore) return, and in all three cases the
\* stored blocks, ndiffs, nbytes, nlines, the path and the value stack are
\* what they were before the call.
C20_ReportAtDepthZero ==
  [][ (lastCall' \in ReportCalls /\ status = "running"
       /\ curPath = << >> /\ curVals = << >>) =>
        /\ reporter' = reporter
        /\ status' = IF lastCall' = "Report(reportUnequal)"
                     THEN "panicked" ELSE "running" ]_vars

\* Report(Unequal) panicked after the last PopStep of a traversal that
\* stored a block.
C20_Witness ==
  /\ status = "panicked"
  /\ lastCall = "Report(reportUnequal)"
  /\ curVals = << >>
  /\ npush = npop
  /\ npush >= 1
  /\ Len(diffs) >= 1
  /\ ndiffs = Len(diffs)

====
